---------------------------- MODULE Spec2Model ----------------------------
(***************************************************************************)
(* A model of the aamva barcode decoder (src/src/lib.rs, src/src/data.rs). *)
(*                                                                         *)
(* Text is a sequence of characters, each character a one-character        *)
(* string.  Two characters have no TLA+ literal and are written as tokens: *)
(* "<RS>" is U+001E (one byte) and "<e9>" is U+00E9, a character of two    *)
(* UTF-8 bytes, which is what makes str::len (bytes) and nom's take        *)
(* (characters) differ.                                                    *)
(*                                                                         *)
(* A nom IResult is [ok |-> TRUE, rest |-> text, out |-> value] or         *)
(* [ok |-> FALSE]; an Option is [some |-> TRUE, v |-> value] or            *)
(* [some |-> FALSE].                                                       *)
(***************************************************************************)
EXTENDS Integers, Sequences, FiniteSets, TLC

VARIABLES
    input,            \* the text handed to the operation under check
    arg,              \* the operation's other argument (subfile type, designator)
    pc,               \* where the operation stands
    ret,              \* what the operation returned
    header,           \* Data.header (parse_barcode), or the Data under decode
    start,            \* the payload from its '@' on (parse_header's `start`)
    subfiles,         \* Data.subfiles: SubfileType -> (element id -> Option value)
    idx,              \* parse_barcode: the next designator of the flat_map
    overflow_checks   \* the build profile: TRUE panics on integer overflow, FALSE wraps

vars == <<input, arg, pc, ret, header, start, subfiles, idx, overflow_checks>>

---------------------------------------------------------------------------
\* Characters

Digit == {"0", "1", "2", "3", "4", "5", "6", "7", "8", "9"}

DigitSeq == <<"0", "1", "2", "3", "4", "5", "6", "7", "8", "9">>

UpperSeq == <<"A", "B", "C", "D", "E", "F", "G", "H", "I", "J", "K", "L", "M",
              "N", "O", "P", "Q", "R", "S", "T", "U", "V", "W", "X", "Y", "Z">>

LowerSeq == <<"a", "b", "c", "d", "e", "f", "g", "h", "i", "j", "k", "l", "m",
              "n", "o", "p", "q", "r", "s", "t", "u", "v", "w", "x", "y", "z">>

Upper == {UpperSeq[i] : i \in 1..26}

Lower == {LowerSeq[i] : i \in 1..26}

\* char::is_ascii_alphabetic, which is nom's AsChar::is_alpha for char
Alpha == Upper \cup Lower

\* char::is_whitespace (White_Space), on the characters of the model
WhiteSpace == {" ", "\t", "\r", "\n"}

\* nom's multispace0 characters
MultiSpace == {" ", "\t", "\r", "\n"}

\* the UTF-8 length of a character
Width(c) == IF c = "<e9>" THEN 2 ELSE 1

DigitVal(c) == (CHOOSE i \in 1..10 : DigitSeq[i] = c) - 1

\* u8::to_ascii_uppercase / to_ascii_lowercase on one character
UpperOf(c) == IF c \in Lower THEN UpperSeq[CHOOSE i \in 1..26 : LowerSeq[i] = c] ELSE c

LowerOf(c) == IF c \in Upper THEN LowerSeq[CHOOSE i \in 1..26 : UpperSeq[i] = c] ELSE c

to_ascii_uppercase(s) == [i \in 1..Len(s) |-> UpperOf(s[i])]

to_ascii_lowercase(s) == [i \in 1..Len(s) |-> LowerOf(s[i])]

---------------------------------------------------------------------------
\* Text helpers

Min(a, b) == IF a < b THEN a ELSE b

Drop(s, n) == SubSeq(s, n + 1, Len(s))

Take(s, n) == SubSeq(s, 1, n)

RECURSIVE ByteLen(_)
\* str::len: the length in bytes
ByteLen(s) == IF s = <<>> THEN 0 ELSE Width(s[1]) + ByteLen(Tail(s))

StartsWith(s, t) == Len(s) >= Len(t) /\ Take(s, Len(t)) = t

EndsWith(s, t) == Len(s) >= Len(t) /\ Drop(s, Len(s) - Len(t)) = t

\* the number of leading characters of s that lie in the class
LeadingRun(s, class) ==
    IF \A i \in 1..Len(s) : s[i] \in class
    THEN Len(s)
    ELSE (CHOOSE i \in 1..Len(s) : s[i] \notin class /\ \A j \in 1..(i - 1) : s[j] \in class) - 1

\* str::trim
trim(s) ==
    LET lead == LeadingRun(s, WhiteSpace)
        t    == Drop(s, lead)
        keep == IF t = <<>> THEN 0
                ELSE CHOOSE i \in 1..Len(t) :
                        t[i] \notin WhiteSpace /\ \A j \in (i + 1)..Len(t) : t[j] \in WhiteSpace
    IN  Take(t, keep)

RECURSIVE DecimalValue(_)
\* the value of a text of decimal digits
DecimalValue(s) ==
    IF s = <<>> THEN 0
    ELSE DecimalValue(Take(s, Len(s) - 1)) * 10 + DigitVal(s[Len(s)])

---------------------------------------------------------------------------
\* Option and IResult

None == [some |-> FALSE]

Some(v) == [some |-> TRUE, v |-> v]

Err == [ok |-> FALSE]

Ok(rest, out) == [ok |-> TRUE, rest |-> rest, out |-> out]

---------------------------------------------------------------------------
\* nom combinators, as the code uses them

\* bytes::complete::take(n): n characters, or an error when fewer remain
take(n, s) == IF Len(s) < n THEN Err ELSE Ok(Drop(s, n), Take(s, n))

\* bytes::complete::tag
tag(t, s) == IF StartsWith(s, t) THEN Ok(Drop(s, Len(t)), t) ELSE Err

\* bytes::complete::take_until(c), c one character: up to, not including, the first c
take_until(c, s) ==
    IF \A i \in 1..Len(s) : s[i] # c
    THEN Err
    ELSE LET n == LeadingRun(s, {s[i] : i \in 1..Len(s)} \ {c})
         IN  Ok(Drop(s, n), Take(s, n))

\* bytes::complete::take_till(|c| c in stop): never fails
take_till(stop, s) ==
    LET n == LeadingRun(s, {s[i] : i \in 1..Len(s)} \ stop)
    IN  Ok(Drop(s, n), Take(s, n))

\* character::complete::multispace0
multispace0(s) ==
    LET n == LeadingRun(s, MultiSpace)
    IN  Ok(Drop(s, n), Take(s, n))

\* character::complete::digit1: one or more leading digits
digit1(s) ==
    LET n == LeadingRun(s, Digit)
    IN  IF n = 0 THEN Err ELSE Ok(Drop(s, n), Take(s, n))

\* character::complete::alpha1: one or more leading ASCII letters
alpha1(s) ==
    LET n == LeadingRun(s, Alpha)
    IN  IF n = 0 THEN Err ELSE Ok(Drop(s, n), Take(s, n))

\* map_parser(take(n), digit1): digit1 runs over the n characters taken and
\* what it leaves of them is dropped (map_parser keeps the outer remainder)
take_digits(n, s) ==
    LET t == take(n, s)
    IN  IF ~t.ok THEN Err
        ELSE LET d == digit1(t.out)
             IN  IF ~d.ok THEN Err ELSE Ok(t.rest, d.out)

\* map_parser(take(n), alpha1)
take_alpha(n, s) ==
    LET t == take(n, s)
    IN  IF ~t.ok THEN Err
        ELSE LET a == alpha1(t.out)
             IN  IF ~a.ok THEN Err ELSE Ok(t.rest, a.out)

---------------------------------------------------------------------------
\* SubfileType

DL == [t |-> "DL"]

EN == [t |-> "EN"]

ID == [t |-> "ID"]

JurisdictionSpecific(c) == [t |-> "Z", c |-> c]

\* impl Display for SubfileType
SubfileTypeToString(ty) ==
    IF ty = DL THEN <<"D", "L">>
    ELSE IF ty = EN THEN <<"E", "N">>
    ELSE IF ty = ID THEN <<"I", "D">>
    ELSE <<"Z", ty.c>>

\* impl FromStr for SubfileType
SubfileTypeFromStr(s) ==
    IF s = <<"D", "L">> THEN Some(DL)
    ELSE IF s = <<"E", "N">> THEN Some(EN)
    ELSE IF s = <<"I", "D">> THEN Some(ID)
    ELSE IF StartsWith(s, <<"Z">>)
         THEN IF Len(s) >= 2 THEN Some(JurisdictionSpecific(s[2])) ELSE None
    ELSE None

---------------------------------------------------------------------------
\* Element grammar

Terminator == {"\r", "\n"}

NONE == <<"N", "O", "N", "E">>

unavl == <<"u", "n", "a", "v", "l">>

\* element_value comparing the placeholders without regard to case
element_value_any_case(value) ==
    LET t == trim(value)
    IN  IF to_ascii_uppercase(t) = NONE \/ to_ascii_lowercase(t) = unavl \/ t = <<>>
        THEN None ELSE Some(t)

\* the match on value.trim() of parse_data_element
element_value(value) ==
    LET t == trim(value)
    IN  IF t = NONE \/ t = unavl \/ t = <<>> THEN None ELSE Some(t)

\* take_terminator consuming a whole run of terminators (CR LF as one)
take_terminator_run(s) ==
    LET n == LeadingRun(s, Terminator)
    IN  Ok(Drop(s, n), Take(s, n))

\* alt((take(1usize), eof)): one character if there is one, else end of input
take_terminator(s) == IF Len(s) >= 1 THEN Ok(Drop(s, 1), Take(s, 1)) ELSE Ok(s, <<>>)

\* parse_data_element; the wrong-prefix check only logs
parse_data_element(s, subfile_type) ==
    LET i == take_alpha(3, s)
    IN  IF ~i.ok THEN Err
        ELSE LET v == take_till(Terminator, i.rest)
                 e == take_terminator(v.rest)
             IN  Ok(e.rest, [id |-> i.out, value |-> element_value(v.out)])

RECURSIVE many0_elements(_, _)
\* many0(parse_data_element): the elements up to the first one that does not
\* parse, and the input left there; an error of the element parser ends the
\* list and is not an error of many0
many0_elements(s, subfile_type) ==
    LET r == parse_data_element(s, subfile_type)
    IN  IF ~r.ok THEN Ok(s, <<>>)
        ELSE LET more == many0_elements(r.rest, subfile_type)
             IN  Ok(more.rest, <<r.out>> \o more.out)

\* .into_iter().map(|elem| (elem.id, elem.value.map(str::trim))).collect():
\* a HashMap keeps the last value inserted for a key
collect_elements(elements) ==
    [id \in {elements[i].id : i \in 1..Len(elements)} |->
        LET last == CHOOSE i \in 1..Len(elements) :
                        elements[i].id = id /\ \A j \in (i + 1)..Len(elements) : elements[j].id # id
            value == elements[last].value
        IN  IF value.some THEN Some(trim(value.v)) ELSE None]

\* the window of parse_data_elements: skip offset characters, then take
\* min(length, remaining bytes) characters
element_window(s, subfile) ==
    LET o == take(subfile.offset, s)
    IN  IF ~o.ok THEN Err
        ELSE take(Min(subfile.length, ByteLen(o.rest)), o.rest)

\* opt(tag(subfile_type.to_string())) for the DL, EN and ID subfiles
strip_type_tag(element_data, subfile_type) ==
    IF subfile_type \in {DL, EN, ID}
    THEN LET t == tag(SubfileTypeToString(subfile_type), element_data)
         IN  IF t.ok THEN t.rest ELSE element_data
    ELSE element_data

\* parse_data_elements
parse_data_elements(s, subfile) ==
    LET w == element_window(s, subfile)
    IN  IF ~w.ok THEN Err
        ELSE LET m == many0_elements(strip_type_tag(w.out, subfile.subfile_type),
                                     subfile.subfile_type)
             IN  Ok(m.rest, collect_elements(m.out))

---------------------------------------------------------------------------
\* Issuer directory (data.rs)

Alberta == 604432

AlbertaAlternative == 990876

SouthCarolina == 636005

\* the discriminants of enum IssuerIdentification
IssuerDirectory == (604426..604434) \cup (636000..636062)

\* IssuerIdentification::try_from(u32).ok(): the variant, named by its
\* discriminant, or None for a number the directory does not hold
IssuerTryFrom(n) ==
    IF n \in IssuerDirectory THEN Some(n)
    ELSE IF n = AlbertaAlternative THEN Some(Alberta)
    ELSE None

---------------------------------------------------------------------------
\* Header and designators

ANSI == <<"A", "N", "S", "I", " ">>

AAMVA == <<"A", "A", "M", "V", "A">>

abac == <<"a", "b", "a", "c">>

\* regex_lite's \w and \d: ASCII only
WordChar == Digit \cup Alpha \cup {"_"}

\* (DL|ID) at position p of s
MatchesDocType(s, p) ==
    p + 1 <= Len(s) /\ SubSeq(s, p, p + 1) \in {<<"D", "L">>, <<"I", "D">>}

\* (DL|ID|Z\w)([DZ][A-Z]{2}) at position p of s
MatchesBoundary(s, p) ==
    /\ p + 4 <= Len(s)
    /\ \/ SubSeq(s, p, p + 1) \in {<<"D", "L">>, <<"I", "D">>}
       \/ s[p] = "Z" /\ s[p + 1] \in WordChar
    /\ s[p + 2] \in {"D", "Z"}
    /\ s[p + 3] \in Upper
    /\ s[p + 4] \in Upper

\* the regex (DL|ID)([\d\w]{3,8})(DL|ID|Z\w)([DZ][A-Z]{2}) matches at
\* position p with n characters in its second group
MatchesAt(s, p, n) ==
    /\ MatchesDocType(s, p)
    /\ p + 1 + n <= Len(s)
    /\ \A k \in (p + 2)..(p + 1 + n) : s[k] \in WordChar
    /\ MatchesBoundary(s, p + 2 + n)

\* Regex::find(start).map(|m| m.end()): the leftmost match, its second group
\* greedy; the end is a byte offset
regex_find_end(s) ==
    IF \E p \in 1..Len(s) : \E n \in 3..8 : MatchesAt(s, p, n)
    THEN LET p == CHOOSE q \in 1..Len(s) :
                     /\ \E n \in 3..8 : MatchesAt(s, q, n)
                     /\ \A r \in 1..(q - 1) : \A n \in 3..8 : ~MatchesAt(s, r, n)
             n == CHOOSE m \in 3..8 :
                     MatchesAt(s, p, m) /\ \A l \in (m + 1)..8 : ~MatchesAt(s, p, l)
         IN  Some(ByteLen(Take(s, p + n + 6)))
    ELSE None

\* the closure guess_offset of parse_subfile_designator
guess_offset(s) ==
    LET m == regex_find_end(s)
    IN  IF m.some THEN m.v - 5 ELSE 0

\* digit_0_to_99 and digit_4char, and the issuer id's 6 characters:
\* map_res(map_parser(take(n), digit1), from_str_radix(_, 10))
digit_nchar(n, s) ==
    LET d == take_digits(n, s)
    IN  IF ~d.ok THEN Err ELSE Ok(d.rest, DecimalValue(d.out))

\* standard_designator correcting South Carolina's offset at every version
standard_designator_any_version(s, st, issuer, version, subfile_type) ==
    LET o == digit_nchar(4, s)
    IN  IF ~o.ok THEN Err
        ELSE LET fixed  == IF issuer = Some(SouthCarolina) /\ o.out = 30
                           THEN o.out - 1 ELSE o.out
                 offset == IF fixed = 0 THEN guess_offset(st) ELSE fixed
                 l      == digit_nchar(4, o.rest)
             IN  IF ~l.ok THEN Err
                 ELSE Ok(l.rest, [subfile_type |-> subfile_type, offset |-> offset,
                                  length |-> l.out])

\* the standard path of parse_subfile_designator: offset, its two
\* corrections, length
standard_designator(s, st, issuer, version, subfile_type) ==
    LET o == digit_nchar(4, s)
    IN  IF ~o.ok THEN Err
        ELSE LET fixed  == IF version = 1 /\ issuer = Some(SouthCarolina) /\ o.out = 30
                           THEN o.out - 1 ELSE o.out
                 offset == IF fixed = 0 THEN guess_offset(st) ELSE fixed
                 l      == digit_nchar(4, o.rest)
             IN  IF ~l.ok THEN Err
                 ELSE Ok(l.rest, [subfile_type |-> subfile_type, offset |-> offset,
                                  length |-> l.out])

\* parse_subfile_designator
parse_subfile_designator(s, st, issuer, version) ==
    LET t == take(2, s)
    IN  IF ~t.ok THEN Err
        ELSE LET ty == SubfileTypeFromStr(t.out)
                 g  == tag(abac, t.rest)
             IN  IF ~ty.some THEN Err
                 ELSE IF g.ok
                 THEN Ok(g.rest, [subfile_type |-> ty.v, offset |-> guess_offset(st),
                                  length |-> ByteLen(st)])
                 ELSE standard_designator(t.rest, st, issuer, version, ty.v)

RECURSIVE many0_designators(_, _, _, _)
\* many0(|s| parse_subfile_designator(s, start, issuer, version_number))
many0_designators(s, st, issuer, version) ==
    LET r == parse_subfile_designator(s, st, issuer, version)
    IN  IF ~r.ok THEN Ok(s, <<>>)
        ELSE LET more == many0_designators(r.rest, st, issuer, version)
             IN  Ok(more.rest, <<r.out>> \o more.out)

\* alt((tag("ANSI "), tag("AAMVA")))
file_type(s) == IF tag(ANSI, s).ok THEN tag(ANSI, s) ELSE tag(AAMVA, s)

\* header_tail reading a jurisdiction version from version 2 on
header_tail_from_2(s, st, issuer_id, version_number) ==
    LET j == IF version_number >= 2 THEN digit_nchar(2, s) ELSE Ok(s, 0)
    IN  IF ~j.ok THEN Err
        ELSE LET n == digit_nchar(2, j.rest)
             IN  IF ~n.ok THEN Err
                 ELSE LET d == many0_designators(n.rest, st, IssuerTryFrom(issuer_id),
                                                 version_number)
                      IN  Ok(d.rest,
                             [start |-> st,
                              header |->
                                [issuer_id |-> issuer_id,
                                 version_number |-> version_number,
                                 jurisdiction_version_number |->
                                    IF version_number >= 2 THEN Some(j.out) ELSE None,
                                 number_of_entries |-> n.out,
                                 subfile_designators |-> d.out]])

\* parse_header from the jurisdiction version number on
header_tail(s, st, issuer_id, version_number) ==
    LET j == IF version_number > 2 THEN digit_nchar(2, s) ELSE Ok(s, 0)
    IN  IF ~j.ok THEN Err
        ELSE LET n == digit_nchar(2, j.rest)
             IN  IF ~n.ok THEN Err
                 ELSE LET d == many0_designators(n.rest, st, IssuerTryFrom(issuer_id),
                                                 version_number)
                      IN  Ok(d.rest,
                             [start |-> st,
                              header |->
                                [issuer_id |-> issuer_id,
                                 version_number |-> version_number,
                                 jurisdiction_version_number |->
                                    IF version_number > 2 THEN Some(j.out) ELSE None,
                                 number_of_entries |-> n.out,
                                 subfile_designators |-> d.out]])

\* parse_header from the file type on
header_fields(s, st) ==
    LET f == file_type(s)
    IN  IF ~f.ok THEN Err
        ELSE LET i == digit_nchar(6, f.rest)
             IN  IF ~i.ok THEN Err
                 ELSE LET v == digit_nchar(2, i.rest)
                      IN  IF ~v.ok THEN Err ELSE header_tail(v.rest, st, i.out, v.out)

\* parse_header
parse_header(s) ==
    LET a == take_until("@", s)
    IN  IF ~a.ok THEN Err
        ELSE LET sp == multispace0(Drop(a.rest, 1))
                 r  == take_until("A", sp.rest)
             IN  IF ~r.ok THEN Err ELSE header_fields(r.rest, a.rest)

---------------------------------------------------------------------------
\* Field decoders (data.rs).  A Data is [header |-> Header, subfiles |-> map].
\* A decoder returns Some(value), None, or Panic when the code panics.

Panic == [panic |-> TRUE]

U16Max == 65535

\* get_field looking at the subfiles in the order EN, DL, ID
get_field_en_first(data, name) ==
    LET present(ty) == /\ ty \in DOMAIN data.subfiles
                       /\ name \in DOMAIN data.subfiles[ty]
                       /\ data.subfiles[ty][name].some
        order == <<EN, DL, ID>>
    IN  IF \E i \in 1..3 : present(order[i])
        THEN LET first == CHOOSE i \in 1..3 :
                              present(order[i]) /\ \A j \in 1..(i - 1) : ~present(order[j])
             IN  Some(trim(data.subfiles[order[first]][name].v))
        ELSE None

\* Data::get_field: the first of DL, EN, ID that holds a present value
get_field(data, name) ==
    LET present(ty) == /\ ty \in DOMAIN data.subfiles
                       /\ name \in DOMAIN data.subfiles[ty]
                       /\ data.subfiles[ty][name].some
        order == <<DL, EN, ID>>
    IN  IF \E i \in 1..3 : present(order[i])
        THEN LET first == CHOOSE i \in 1..3 :
                              present(order[i]) /\ \A j \in 1..(i - 1) : ~present(order[j])
             IN  Some(trim(data.subfiles[order[first]][name].v))
        ELSE None

\* str::parse::<u16>: an optional '+', then one or more digits, at most u16::MAX
parse_u16(s) ==
    LET digits == IF Len(s) > 1 /\ s[1] = "+" THEN Tail(s) ELSE s
    IN  IF /\ digits # <<>>
           /\ \A i \in 1..Len(digits) : digits[i] \in Digit
           /\ DecimalValue(digits) <= U16Max
        THEN Some(DecimalValue(digits))
        ELSE None

\* the number of characters that make up the first b bytes of s, None when
\* b is past the end of s or inside a character
char_boundary(s, b) ==
    IF \E k \in 0..Len(s) : ByteLen(Take(s, k)) = b
    THEN Some(CHOOSE k \in 0..Len(s) : ByteLen(Take(s, k)) = b)
    ELSE None

\* &s[from..to] on byte indices: None stands for the slice's panic
byte_slice(s, from, to) ==
    LET a == char_boundary(s, from)
        z == char_boundary(s, to)
    IN  IF a.some /\ z.some THEN Some(SubSeq(s, a.v + 1, z.v)) ELSE None

\* str::strip_suffix
strip_suffix(s, suffix) ==
    IF EndsWith(s, suffix) THEN Some(Take(s, Len(s) - Len(suffix))) ELSE None

\* str::split_once(c): around the first c
split_once(s, c) ==
    IF \E i \in 1..Len(s) : s[i] = c
    THEN LET n == LeadingRun(s, {s[i] : i \in 1..Len(s)} \ {c})
         IN  Some(<<Take(s, n), Drop(s, n + 1)>>)
    ELSE None

Inches(n) == Some([unit |-> "inches", n |-> n])

Centimeters(n) == Some([unit |-> "centimeters", n |-> n])

\* feet_inches with ten inches to the foot
feet_inches_decimal(feet, inches, checks) ==
    IF feet * 10 + inches > U16Max
    THEN IF checks THEN Panic ELSE Inches((feet * 10 + inches) % (U16Max + 1))
    ELSE Inches(feet * 10 + inches)

\* Height::Inches(feet * 12 + inches) on u16: an overflow panics where
\* overflow checks are compiled in and wraps where they are not
feet_inches(feet, inches, checks) ==
    IF feet * 12 + inches > U16Max
    THEN IF checks THEN Panic ELSE Inches((feet * 12 + inches) % (U16Max + 1))
    ELSE Inches(feet * 12 + inches)

\* the closure parse_hyphenated_ftin of Data::height
parse_hyphenated_ftin(feet, inches, checks) ==
    LET f == parse_u16(IF strip_suffix(feet, <<"'">>).some
                       THEN strip_suffix(feet, <<"'">>).v ELSE feet)
        i == parse_u16(IF strip_suffix(inches, <<"\"">>).some
                       THEN strip_suffix(inches, <<"\"">>).v ELSE inches)
    IN  IF ~f.some \/ ~i.some THEN None ELSE feet_inches(f.v, i.v, checks)

\* the branches " cm" and " in" of Data::height: number[..3].parse().ok()?
height_with_unit(number, unit) ==
    LET d == byte_slice(number, 0, 3)
    IN  IF ~d.some THEN Panic
        ELSE IF ~parse_u16(d.v).some THEN None
        ELSE [some |-> TRUE, v |-> [unit |-> unit, n |-> parse_u16(d.v).v]]

\* the branch height.len() == 3 of Data::height
height_compact(height, checks) ==
    LET f == byte_slice(height, 0, 1)
    IN  IF ~f.some THEN Panic
        ELSE IF ~parse_u16(f.v).some THEN None
        ELSE LET i == byte_slice(height, 1, 3)
             IN  IF ~i.some THEN Panic
                 ELSE IF ~parse_u16(i.v).some THEN None
                 ELSE feet_inches(parse_u16(f.v).v, parse_u16(i.v).v, checks)

\* the last two branches of Data::height: element DAV, then element ZIJ of
\* the jurisdiction-specific subfile 'I'
height_fallback(data, checks) ==
    LET dav == get_field(data, <<"D", "A", "V">>)
        zi  == JurisdictionSpecific("I")
        zij == <<"Z", "I", "J">>
    IN  IF dav.some
        THEN IF parse_u16(dav.v).some THEN Centimeters(parse_u16(dav.v).v) ELSE None
        ELSE IF /\ zi \in DOMAIN data.subfiles
                /\ zij \in DOMAIN data.subfiles[zi]
                /\ data.subfiles[zi][zij].some
        THEN LET parts == split_once(data.subfiles[zi][zij].v, "-")
             IN  IF parts.some THEN parse_hyphenated_ftin(parts.v[1], parts.v[2], checks)
                 ELSE None
        ELSE None

\* Data::height
height(data, checks) ==
    LET dau == get_field(data, <<"D", "A", "U">>)
    IN  IF ~dau.some THEN None
        ELSE LET h     == to_ascii_lowercase(dau.v)
                 cm    == strip_suffix(h, <<" ", "c", "m">>)
                 in    == strip_suffix(h, <<" ", "i", "n">>)
                 parts == split_once(h, "-")
             IN  IF cm.some THEN height_with_unit(cm.v, "centimeters")
                 ELSE IF in.some THEN height_with_unit(in.v, "inches")
                 ELSE IF ByteLen(h) = 3 THEN height_compact(h, checks)
                 ELSE IF parts.some
                 THEN parse_hyphenated_ftin(parts.v[1], parts.v[2], checks)
                 ELSE height_fallback(data, checks)

\* IssuerIdentification::country, on the variant's discriminant
issuer_country(issuer) ==
    IF issuer \in {604426, 604428, 604429, 604432, 604433, 604434, 636012, 636013,
                   636016, 636017, 636028, 636044, 636048}
    THEN "Canada"
    ELSE IF issuer \in {636056, 636057} THEN "Mexico"
    ELSE "UnitedStates"

\* time::util::is_leap_year
is_leap_year(year) == year % 4 = 0 /\ (year % 25 # 0 \/ year % 16 = 0)

\* time::util::days_in_year_month
days_in_month(year, month) ==
    IF month = 2 THEN (IF is_leap_year(year) THEN 29 ELSE 28)
    ELSE IF month \in {4, 6, 9, 11} THEN 30
    ELSE 31

\* time::util::days_in_year
days_in_year(year) == IF is_leap_year(year) THEN 366 ELSE 365

RECURSIVE days_before_month(_, _)
\* the days of the year before the first of the month
days_before_month(year, month) ==
    IF month = 1 THEN 0
    ELSE days_before_month(year, month - 1) + days_in_month(year, month - 1)

\* Date::from_calendar_date(..).ok(): months 1 to 12, days of the month
from_calendar_date(year, month, day) ==
    IF month \in 1..12 /\ day >= 1 /\ day <= days_in_month(year, month)
    THEN Some([year |-> year, month |-> month, day |-> day])
    ELSE None

\* Date::to_ordinal_date
to_ordinal_date(date) == <<date.year, days_before_month(date.year, date.month) + date.day>>

\* Date::from_ordinal_date(..).ok(): years up to 9999, days of the year
from_ordinal_date(year, ordinal) ==
    IF year > 9999 \/ ordinal < 1 \/ ordinal > days_in_year(year) THEN None
    ELSE LET month == CHOOSE m \in 1..12 :
                          /\ days_before_month(year, m) < ordinal
                          /\ ordinal <= days_before_month(year, m) + days_in_month(year, m)
         IN  Some([year |-> year, month |-> month, day |-> ordinal - days_before_month(year, month)])

\* Date::parse(input, format).ok() for the formats MDY and YMD: every
\* component is of fixed width and all digits, nothing may follow
date_parse(text, format) ==
    IF Len(text) # 8 \/ \E i \in 1..Len(text) : text[i] \notin Digit THEN None
    ELSE IF format = "MDY"
    THEN from_calendar_date(DecimalValue(SubSeq(text, 5, 8)), DecimalValue(SubSeq(text, 1, 2)),
                            DecimalValue(SubSeq(text, 3, 4)))
    ELSE from_calendar_date(DecimalValue(SubSeq(text, 1, 4)), DecimalValue(SubSeq(text, 5, 6)),
                            DecimalValue(SubSeq(text, 7, 8)))

\* parse_date trying year-month-day first
parse_date_ymd_first(data, text, country) ==
    IF ByteLen(text) # 8 THEN None
    ELSE IF country = "UnitedStates" /\ data.header.version_number # 1
    THEN IF date_parse(text, "YMD").some THEN date_parse(text, "YMD")
         ELSE date_parse(text, "MDY")
    ELSE date_parse(text, "YMD")

\* Data::parse_date
parse_date(data, text, country) ==
    IF ByteLen(text) # 8 THEN None
    ELSE IF country = "UnitedStates" /\ data.header.version_number # 1
    THEN IF date_parse(text, "MDY").some THEN date_parse(text, "MDY")
         ELSE date_parse(text, "YMD")
    ELSE date_parse(text, "YMD")

\* Data::date_field
date_field(data, name) ==
    LET issuer  == IssuerTryFrom(data.header.issuer_id)
        country == IF issuer.some THEN issuer_country(issuer.v) ELSE "UnitedStates"
        field   == get_field(data, name)
    IN  IF ~field.some THEN None ELSE parse_date(data, field.v, country)

\* Data::date_of_birth
date_of_birth(data) == date_field(data, <<"D", "B", "B">>)

\* under_n_until correcting the day from day 60 on
under_n_until_from_60(data, name, age) ==
    IF date_field(data, name).some THEN date_field(data, name)
    ELSE IF ~date_of_birth(data).some THEN None
    ELSE LET year        == to_ordinal_date(date_of_birth(data).v)[1]
             day_of_year == to_ordinal_date(date_of_birth(data).v)[2]
             future_year == year + age
             day == IF day_of_year >= 60
                    THEN IF is_leap_year(year) /\ ~is_leap_year(future_year)
                         THEN day_of_year - 1
                         ELSE IF ~is_leap_year(year) /\ is_leap_year(future_year)
                         THEN day_of_year + 1
                         ELSE day_of_year
                    ELSE day_of_year
         IN  from_ordinal_date(future_year, day)

\* Data::under_n_until
under_n_until(data, name, age) ==
    IF date_field(data, name).some THEN date_field(data, name)
    ELSE IF ~date_of_birth(data).some THEN None
    ELSE LET year        == to_ordinal_date(date_of_birth(data).v)[1]
             day_of_year == to_ordinal_date(date_of_birth(data).v)[2]
             future_year == year + age
             day == IF day_of_year > 60
                    THEN IF is_leap_year(year) /\ ~is_leap_year(future_year)
                         THEN day_of_year - 1
                         ELSE IF ~is_leap_year(year) /\ is_leap_year(future_year)
                         THEN day_of_year + 1
                         ELSE day_of_year
                    ELSE day_of_year
         IN  from_ordinal_date(future_year, day)

\* under_age_until reading a second element for the thresholds 19 and 21
under_age_until_own_elements(data) ==
    [under_18_until |-> under_n_until(data, <<"D", "D", "H">>, 18),
     under_19_until |-> under_n_until(data, <<"D", "D", "I">>, 19),
     under_21_until |-> under_n_until(data, <<"D", "D", "I">>, 21)]

\* Data::under_age_until
under_age_until(data) ==
    [under_18_until |-> under_n_until(data, <<"D", "D", "H">>, 18),
     under_19_until |-> under_n_until(data, <<"D", "D", "H">>, 19),
     under_21_until |-> under_n_until(data, <<"D", "D", "H">>, 21)]

\* Data::country inferring the country from the height for an unknown code
country_infer_unknown(data, checks) ==
    LET dcg  == get_field(data, <<"D", "C", "G">>)
        code == IF dcg.some THEN to_ascii_uppercase(dcg.v) ELSE <<>>
    IN  IF dcg.some /\ code = <<"U", "S", "A">> THEN Some("UnitedStates")
        ELSE IF dcg.some /\ code = <<"C", "A", "N">> THEN Some("Canada")
        ELSE IF dcg.some /\ code = <<"M", "E", "X">> THEN Some("Mexico")
        ELSE LET h == height(data, checks)
             IN  IF h = Panic THEN Panic
                 ELSE IF h = None THEN None
                 ELSE IF h.v.unit = "inches" THEN Some("UnitedStates")
                 ELSE Some("Canada")

\* Data::country
country(data, checks) ==
    LET dcg  == get_field(data, <<"D", "C", "G">>)
        code == IF dcg.some THEN to_ascii_uppercase(dcg.v) ELSE <<>>
    IN  IF dcg.some /\ code = <<"U", "S", "A">> THEN Some("UnitedStates")
        ELSE IF dcg.some /\ code = <<"C", "A", "N">> THEN Some("Canada")
        ELSE IF dcg.some /\ code = <<"M", "E", "X">> THEN Some("Mexico")
        ELSE IF dcg.some THEN None
        ELSE LET h == height(data, checks)
             IN  IF h = Panic THEN Panic
                 ELSE IF h = None THEN None
                 ELSE IF h.v.unit = "inches" THEN Some("UnitedStates")
                 ELSE Some("Canada")

Pounds(n) == Some([unit |-> "pounds", from |-> n, to |-> n])

Kilograms(n) == Some([unit |-> "kilograms", from |-> n, to |-> n])

KilogramRange(from, to) == Some([unit |-> "kilogram_range", from |-> from, to |-> to])

\* the match on the range code of Data::weight
weight_range(range) ==
    CASE range = <<"0">> -> KilogramRange(0, 31)
      [] range = <<"1">> -> KilogramRange(32, 45)
      [] range = <<"2">> -> KilogramRange(46, 59)
      [] range = <<"3">> -> KilogramRange(60, 70)
      [] range = <<"4">> -> KilogramRange(71, 86)
      [] range = <<"5">> -> KilogramRange(87, 100)
      [] range = <<"6">> -> KilogramRange(101, 113)
      [] range = <<"7">> -> KilogramRange(114, 127)
      [] range = <<"8">> -> KilogramRange(128, 145)
      [] range = <<"9">> -> KilogramRange(146, 255)
      [] OTHER -> None

\* Data::weight passing on to the next element when one is no integer
weight_fall_through(data) ==
    LET daw == get_field(data, <<"D", "A", "W">>)
        dax == get_field(data, <<"D", "A", "X">>)
        dce == get_field(data, <<"D", "C", "E">>)
    IN  IF daw.some /\ parse_u16(daw.v).some THEN Pounds(parse_u16(daw.v).v)
        ELSE IF dax.some /\ parse_u16(dax.v).some THEN Kilograms(parse_u16(dax.v).v)
        ELSE IF dce.some THEN weight_range(dce.v)
        ELSE None

\* Data::weight
weight(data) ==
    LET daw == get_field(data, <<"D", "A", "W">>)
        dax == get_field(data, <<"D", "A", "X">>)
        dce == get_field(data, <<"D", "C", "E">>)
    IN  IF daw.some
        THEN IF parse_u16(daw.v).some THEN Pounds(parse_u16(daw.v).v) ELSE None
        ELSE IF dax.some
        THEN IF parse_u16(dax.v).some THEN Kilograms(parse_u16(dax.v).v) ELSE None
        ELSE IF dce.some THEN weight_range(dce.v)
        ELSE None

\* Data::get_field_owned
get_field_owned(data, name) == get_field(data, name)

\* impl From<Data> for DecodedData, on the header fields, the height and the
\* fields copied as text; a panic of a decoder is a panic of the conversion
decoded_data(data, checks) ==
    IF height(data, checks) = Panic THEN Panic
    ELSE [issuer_id |-> data.header.issuer_id,
          aamva_version |-> data.header.version_number,
          jurisdiction_version_number |-> data.header.jurisdiction_version_number,
          height |-> height(data, checks),
          customer_id_number |-> get_field_owned(data, <<"D", "A", "Q">>),
          document_discriminator |-> get_field_owned(data, <<"D", "C", "F">>),
          place_of_birth |-> get_field_owned(data, <<"D", "C", "I">>),
          audit_information |-> get_field_owned(data, <<"D", "C", "J">>),
          inventory_control_information |-> get_field_owned(data, <<"D", "C", "K">>)]

---------------------------------------------------------------------------
\* parse_barcode

\* subfile_entry recording an empty element map for a subfile that failed
subfile_entry_keep_failed(subs, designator, r) ==
    (designator.subfile_type :> (IF r.ok THEN r.out ELSE <<>>)) @@ subs

\* one designator of parse_barcode's flat_map, collected into the HashMap: a
\* subfile that parsed replaces the entry of its type, one that failed is
\* dropped (.ok())
subfile_entry(subs, designator, r) ==
    IF r.ok THEN (designator.subfile_type :> r.out) @@ subs ELSE subs

---------------------------------------------------------------------------
\* SpecElement: parse_data_element applied to one element block.

MaxPad == 1

\* the texts of at most n characters over the alphabet
Texts(alphabet, n) == UNION {[1..k -> alphabet] : k \in 0..n}

ExampleValue == <<"0", "1", "2", "3", "4", "5", "6", "7", "8", "9", "A", "B", "C">>

ElementIds ==
    {<<"D", "A", "Q">>, <<"Z", "V", "A">>, <<"d", "a", "q">>,
     <<"D", "A", "1">>, <<"D", "1", "Q">>, <<"1", "A", "Q">>, <<"D", " ", "Q">>}

ValueCores ==
    {<<>>, NONE, unavl, ExampleValue,
     <<"n", "o", "n", "e">>, <<"N", "o", "n", "e">>, <<"U", "N", "A", "V", "L">>,
     <<"N", "O", " ", "N", "E">>, <<"N", "O", "N", "E", "x">>, <<"<RS>">>}

ValuePads == Texts({" ", "\t"}, MaxPad)

ElementEnds == {<<>>, <<"\r">>, <<"\n">>, <<"\r", "\n">>}

ElementTails == {<<>>, <<"t", "e", "s", "t">>}

ElementInputs ==
    {i \o l \o c \o r \o e \o t :
        i \in ElementIds, l \in ValuePads, c \in ValueCores, r \in ValuePads,
        e \in ElementEnds, t \in ElementTails}
    \cup {<<>>, <<"D">>, <<"D", "A">>}

ElementSubfileTypes == {DL, JurisdictionSpecific("V")}

Unused == "-"

InitElement ==
    /\ input \in ElementInputs
    /\ arg \in ElementSubfileTypes
    /\ pc = "call"
    /\ ret = Unused
    /\ header = Unused
    /\ start = Unused
    /\ subfiles = Unused
    /\ idx = 0
    /\ overflow_checks = FALSE

CallParseDataElement ==
    /\ pc = "call"
    /\ ret' = parse_data_element(input, arg)
    /\ pc' = "done"
    /\ UNCHANGED <<input, arg, header, start, subfiles, idx, overflow_checks>>

NextElement == CallParseDataElement

SpecElement == InitElement /\ [][NextElement]_vars

\* the element block of tests::test_parse_data_element
ExampleElement == <<"D", "A", "Q">> \o ExampleValue \o <<"\r", "t", "e", "s", "t">>

ExampleElementNoEnd == <<"D", "A", "Q">> \o ExampleValue

\* the position of the first terminator of s after its 3-character id, or
\* Len(s) + 1 when there is none
FirstTerminator(s) ==
    IF \E k \in 4..Len(s) : s[k] \in Terminator
    THEN CHOOSE k \in 4..Len(s) : s[k] \in Terminator /\ \A j \in 4..(k - 1) : s[j] \notin Terminator
    ELSE Len(s) + 1

\* the captured value: what lies between the id and the first terminator
CapturedValue(s) == SubSeq(s, 4, FirstTerminator(s) - 1)

\* t is v without its leading and trailing white space
IsTrimOf(t, v) ==
    \E a \in 0..Len(v) : \E b \in 0..(Len(v) - a) :
        /\ \A i \in 1..a : v[i] \in WhiteSpace
        /\ \A i \in (Len(v) - b + 1)..Len(v) : v[i] \in WhiteSpace
        /\ t = SubSeq(v, a + 1, Len(v) - b)
        /\ (t # <<>> => t[1] \notin WhiteSpace /\ t[Len(t)] \notin WhiteSpace)

ElementDone == pc = "done" /\ ret.ok

\* C8 (as amended): an element's recorded value is absent iff the trimmed
\* captured value is empty or is exactly "NONE" or exactly "unavl", compared
\* case-sensitively; otherwise it is the trimmed captured text.
C8_ValueAbsentIffPlaceholder ==
    ElementDone =>
        LET v == CapturedValue(input)
        IN  /\ ret.out.value = None <=>
                   (IsTrimOf(<<>>, v) \/ IsTrimOf(NONE, v) \/ IsTrimOf(unavl, v))
            /\ ret.out.value # None => IsTrimOf(ret.out.value.v, v)

\* C8 witness: a placeholder in another case has been recorded as present
C8_Witness ==
    /\ ElementDone
    /\ ret.out.value = Some(<<"n", "o", "n", "e">>)
    /\ CapturedValue(input) # <<"n", "o", "n", "e">>

\* C8 as stated: the placeholders are recognised whatever their case
C8_Original ==
    ElementDone =>
        LET v == to_ascii_uppercase(CapturedValue(input))
        IN  ret.out.value = None <=>
                (IsTrimOf(<<>>, v) \/ IsTrimOf(NONE, v) \/ IsTrimOf(to_ascii_uppercase(unavl), v))

\* C9: on a block that starts with a 3-letter id, parse_data_element returns
\* that id, the value captured up to (not including) the first CR or LF, or
\* to the end of input, and as remainder the input after exactly one
\* terminator character; the test's two blocks give DAQ, 0123456789ABC and
\* the remainders "test" and "".
C9_ElementValueAndRemainder ==
    /\ (pc = "done" /\ Len(input) >= 3 /\ \A i \in 1..3 : input[i] \in Alpha) =>
           /\ ret.ok
           /\ ret.out.id = Take(input, 3)
           /\ ret.out.value = element_value(CapturedValue(input))
           /\ ret.rest = Drop(input, Min(FirstTerminator(input), Len(input)))
    /\ (pc = "done" /\ input = ExampleElement) =>
           ret = Ok(<<"t", "e", "s", "t">>, [id |-> <<"D", "A", "Q">>, value |-> Some(ExampleValue)])
    /\ (pc = "done" /\ input = ExampleElementNoEnd) =>
           ret = Ok(<<>>, [id |-> <<"D", "A", "Q">>, value |-> Some(ExampleValue)])

\* C9 witness: the test's block with a terminator and text after it was parsed
C9_Witness == pc = "done" /\ input = ExampleElement /\ ret.ok /\ ret.rest # <<>>

---------------------------------------------------------------------------
\* SpecElements: parse_data_elements applied to a payload and a designator.

MaxElements == 2

MaxOffset == 3

\* what comes before the data in the payloads of this specification
ElementsPads == {<<>>, <<"@", "x">>, <<"@", "<e9>">>}

ElementBlocks ==
    {<<"D", "A", "Q", "1", "\r">>, <<"D", "A", "Q", "2", "\n">>, <<"D", "B", "A", " ", "\r">>,
     <<"D", "A", "1", "x", "\r">>, <<"1", "A", "Q", "z", "\r">>, <<"D", "B">>}

RECURSIVE Concat(_)
Concat(ss) == IF ss = <<>> THEN <<>> ELSE ss[1] \o Concat(Tail(ss))

ElementsData == {Concat(b) : b \in Texts(ElementBlocks, MaxElements)}

ElementsPayloads ==
    {p \o t \o d : p \in ElementsPads, t \in {<<>>, <<"D", "L">>}, d \in ElementsData}

ElementsLengths == {0, 2, 5, 7, 10, 12, 9999}

ElementsDesignators ==
    [subfile_type : {DL, JurisdictionSpecific("V")}, offset : 0..MaxOffset,
     length : ElementsLengths]

InitElements ==
    /\ input \in ElementsPayloads
    /\ arg \in ElementsDesignators
    /\ pc = "call"
    /\ ret = Unused
    /\ header = Unused
    /\ start = Unused
    /\ subfiles = Unused
    /\ idx = 0
    /\ overflow_checks = FALSE

CallParseDataElements ==
    /\ pc = "call"
    /\ ret' = parse_data_elements(input, arg)
    /\ pc' = "done"
    /\ UNCHANGED <<input, arg, header, start, subfiles, idx, overflow_checks>>

NextElements == CallParseDataElements

SpecElements == InitElements /\ [][NextElements]_vars

\* the designator's range runs past the end of the payload
Overrun(s, subfile) == subfile.offset + subfile.length > ByteLen(s)

\* the min(length, remaining) characters after the offset, none when the
\* offset lies beyond the end
ClampedWindow(s, subfile) ==
    SubSeq(s, subfile.offset + 1, Min(subfile.offset + subfile.length, Len(s)))

\* C3: for a designator whose offset + length exceeds the payload length,
\* also when the offset alone lies beyond the end, parse_data_elements
\* succeeds with the element map of the clamped window and never errors.
C3_Original ==
    (pc = "done" /\ Overrun(input, arg)) =>
        /\ ret.ok
        /\ ret.out = collect_elements(
               many0_elements(strip_type_tag(ClampedWindow(input, arg), arg.subfile_type),
                              arg.subfile_type).out)

RECURSIVE WellLexed(_)
\* the element grammar as specified: every element of the window starts with
\* 3 alphabetic characters, until the window is exhausted
WellLexed(w) ==
    \/ w = <<>>
    \/ /\ Len(w) >= 3
       /\ \A i \in 1..3 : w[i] \in Alpha
       /\ WellLexed(Drop(w, Min(FirstTerminator(w), Len(w))))

\* C4: a subfile in whose window some element id is not 3 alphabetic
\* characters is rejected as a whole, and so every key of an element map is
\* exactly 3 alphabetic characters.
C4_Original ==
    (pc = "done" /\ element_window(input, arg).ok) =>
        /\ ~WellLexed(strip_type_tag(element_window(input, arg).out, arg.subfile_type))
               => ~ret.ok
        /\ ret.ok => \A id \in DOMAIN ret.out :
                        Len(id) = 3 /\ \A i \in 1..3 : id[i] \in Alpha

---------------------------------------------------------------------------
\* SpecHeader: parse_header applied to a payload put together from tokens.
\* arg keeps the tokens, input is their concatenation.

MaxDesignators == 2

Pow10(k) == IF k = 0 THEN 1 ELSE IF k = 1 THEN 10 ELSE IF k = 2 THEN 100
            ELSE IF k = 3 THEN 1000 ELSE IF k = 4 THEN 10000 ELSE 100000

\* n written as w decimal digits
Fmt(n, w) == [i \in 1..w |-> DigitSeq[((n \div Pow10(w - i)) % 10) + 1]]

\* a numeric token: n written in w digits
Num(n, w) == [text |-> Fmt(n, w), digits |-> TRUE, n |-> n]

\* a token of the same width that is not all digits
Raw(t) == [text |-> t, digits |-> FALSE, n |-> 0]

NoToken == [text |-> <<>>, digits |-> FALSE, n |-> 0]

StdDesignator(ty, o, l) == [type |-> ty, abac |-> FALSE, offset |-> o, length |-> l]

AbacDesignator(ty) == [type |-> ty, abac |-> TRUE, offset |-> NoToken, length |-> NoToken]

DesignatorText(d) ==
    d.type \o (IF d.abac THEN abac ELSE d.offset.text \o d.length.text)

DesignatorTokens ==
    {StdDesignator(<<"D", "L">>, Num(39, 4), Num(188, 4)),
     StdDesignator(<<"Z", "V">>, Num(227, 4), Num(31, 4)),
     StdDesignator(<<"I", "D">>, Num(30, 4), Num(9999, 4)),
     StdDesignator(<<"E", "N">>, Num(0, 4), Num(0, 4)),
     StdDesignator(<<"D", "L">>, Raw(<<"0", "0", "3", "X">>), Num(10, 4)),
     StdDesignator(<<"D", "L">>, Num(41, 4), Raw(<<"1", "2", " ", "0">>)),
     StdDesignator(<<"D", "L">>, Raw(<<"X", "0", "3", "9">>), Num(10, 4)),
     StdDesignator(<<"X", "X">>, Num(1, 4), Num(1, 4)),
     AbacDesignator(<<"D", "L">>)}

HeaderTails ==
    {<<>>, ANSI,
     <<"D", "L", "D", "A", "Q", "1", "2", "3", "\r", "D", "L", "D", "C", "S", "X", "\r">>}

HeaderSeparators == {<<>>, <<"\n">>, <<"\n", "<RS>", "\r">>}

\* the version token with the jurisdiction version token that follows it
HeaderVersions ==
    {<<Num(1, 2), NoToken>>, <<Num(2, 2), NoToken>>, <<Num(3, 2), Num(7, 2)>>,
     <<Num(10, 2), Num(0, 2)>>, <<Num(4, 2), Raw(<<"0", "x">>)>>,
     <<Raw(<<"1", "A">>), NoToken>>, <<Raw(<<"A", "1">>), NoToken>>}

HeaderIssuers ==
    {Num(636000, 6), Num(636005, 6), Num(1, 6),
     Raw(<<"6", "3", "6", "0", "0", "X">>), Raw(<<"X", "3", "6", "0", "0", "0">>)}

HeaderCounts == {Num(2, 2), Num(0, 2), Raw(<<"2", "X">>)}

ExampleDesignators ==
    <<StdDesignator(<<"D", "L">>, Num(39, 4), Num(188, 4)),
      StdDesignator(<<"Z", "V">>, Num(227, 4), Num(31, 4))>>

HeaderToken(pre, sep, ft, issuer, version, count, designators, tail) ==
    [pre |-> pre, sep |-> sep, file_type |-> ft, issuer |-> issuer,
     version |-> version[1], jurisdiction |-> version[2], count |-> count,
     designators |-> designators, tail |-> tail]

\* payloads that vary the fixed-width fields, and payloads that vary the
\* designator list
HeaderTokens ==
    {HeaderToken(pre, sep, ft, issuer, version, count, ExampleDesignators, ANSI) :
        pre \in {<<>>, <<"x">>}, sep \in HeaderSeparators,
        ft \in {AAMVA, ANSI, <<"A", "N", "S", "I", "x">>},
        issuer \in HeaderIssuers, version \in HeaderVersions, count \in HeaderCounts}
    \cup
    {HeaderToken(<<>>, <<"\n">>, ANSI, issuer, version, Num(1, 2), designators, tail) :
        issuer \in {Num(636000, 6), Num(636005, 6)},
        version \in {<<Num(1, 2), NoToken>>, <<Num(3, 2), Num(7, 2)>>},
        designators \in Texts(DesignatorTokens, MaxDesignators),
        tail \in HeaderTails}

HeaderPayload(t) ==
    t.pre \o <<"@">> \o t.sep \o t.file_type \o t.issuer.text \o t.version.text
    \o t.jurisdiction.text \o t.count.text
    \o Concat([i \in 1..Len(t.designators) |-> DesignatorText(t.designators[i])])
    \o t.tail

InitHeader ==
    /\ arg \in HeaderTokens
    /\ input = HeaderPayload(arg)
    /\ pc = "call"
    /\ ret = Unused
    /\ header = Unused
    /\ start = Unused
    /\ subfiles = Unused
    /\ idx = 0
    /\ overflow_checks = FALSE

CallParseHeader ==
    /\ pc = "call"
    /\ ret' = parse_header(input)
    /\ pc' = "done"
    /\ UNCHANGED <<input, arg, header, start, subfiles, idx, overflow_checks>>

NextHeader == CallParseHeader

SpecHeader == InitHeader /\ [][NextHeader]_vars

\* the payload of tests::test_parse_header
ExampleHeaderPayload ==
    <<"@", "\n", "<RS>", "\r", "A", "A", "M", "V", "A", "6", "3", "6", "0", "0", "0",
      "0", "1", "0", "2", "D", "L", "0", "0", "3", "9", "0", "1", "8", "8",
      "Z", "V", "0", "2", "2", "7", "0", "0", "3", "1", "A", "N", "S", "I", " ">>

\* what the test expects of it
ExampleHeader ==
    [issuer_id |-> 636000, version_number |-> 1, jurisdiction_version_number |-> None,
     number_of_entries |-> 2,
     subfile_designators |->
        <<[subfile_type |-> DL, offset |-> 39, length |-> 188],
          [subfile_type |-> JurisdictionSpecific("V"), offset |-> 227, length |-> 31]>>]

HeaderDone == pc = "done"

\* the subfile type a 2-character tag stands for, if any
TagType(t) ==
    CASE t = <<"D", "L">> -> Some(DL)
      [] t = <<"E", "N">> -> Some(EN)
      [] t = <<"I", "D">> -> Some(ID)
      [] t[1] = "Z" -> Some(JurisdictionSpecific(t[2]))
      [] OTHER -> None

\* the tokens up to the designators are as the grammar wants them: a file
\* type, digits of the fixed widths, a jurisdiction version exactly when the
\* version is above 2
FixedFieldsWellFormed(t) ==
    /\ t.file_type \in {AAMVA, ANSI}
    /\ t.issuer.digits
    /\ t.version.digits
    /\ IF t.version.n > 2 THEN t.jurisdiction.digits ELSE t.jurisdiction = NoToken
    /\ t.count.digits

\* a designator token the grammar accepts
DesignatorWellFormed(d) ==
    TagType(d.type).some /\ (d.abac \/ (d.offset.digits /\ d.length.digits))

\* the number of designator tokens before the first the grammar rejects
WellFormedPrefix(ds) ==
    IF \A i \in 1..Len(ds) : DesignatorWellFormed(ds[i]) THEN Len(ds)
    ELSE (CHOOSE i \in 1..Len(ds) :
             ~DesignatorWellFormed(ds[i]) /\ \A j \in 1..(i - 1) : DesignatorWellFormed(ds[j])) - 1

\* a well-formed header with k standard designators
StandardHeader(t) ==
    /\ FixedFieldsWellFormed(t)
    /\ \A i \in 1..Len(t.designators) :
          DesignatorWellFormed(t.designators[i]) /\ ~t.designators[i].abac

\* one of the two corrections applies to the designator's offset
OffsetCorrected(t, d) ==
    \/ d.offset.n = 0
    \/ t.version.n = 1 /\ t.issuer.n = SouthCarolina /\ d.offset.n = 30

\* what C6 says of a designator, but for its offset
DesignatorAsEncoded(r, d) ==
    /\ Some(r.subfile_type) = TagType(d.type)
    /\ r.length = d.length.n

\* what C6 says of the header, but for the designators' offsets
HeaderAsEncoded(t) ==
    /\ ret.ok
    /\ ret.rest = t.tail
    /\ ret.out.start = Drop(input, Len(t.pre))
    /\ ret.out.header.issuer_id = t.issuer.n
    /\ ret.out.header.version_number = t.version.n
    /\ ret.out.header.jurisdiction_version_number =
           (IF t.version.n > 2 THEN Some(t.jurisdiction.n) ELSE None)
    /\ ret.out.header.number_of_entries = t.count.n
    /\ Len(ret.out.header.subfile_designators) = Len(t.designators)
    /\ \A i \in 1..Len(t.designators) :
          DesignatorAsEncoded(ret.out.header.subfile_designators[i], t.designators[i])

ExampleHeaderAsTested ==
    (HeaderDone /\ input = ExampleHeaderPayload) =>
        ret = Ok(ANSI, [start |-> ExampleHeaderPayload, header |-> ExampleHeader])

\* C6 (as amended): on a well-formed payload with k standard designators
\* parse_header returns the fields as their decimal values, the designators
\* in encoded order, the jurisdiction version present iff version > 2 and
\* the input after the last designator as remainder; a designator's offset is
\* its decimal value unless it is 0 or the South Carolina correction applies.
\* The documented payload gives what the test expects.
C6_HeaderAsEncoded ==
    /\ (HeaderDone /\ StandardHeader(arg)) =>
           /\ HeaderAsEncoded(arg)
           /\ \A i \in 1..Len(arg.designators) :
                 ~OffsetCorrected(arg, arg.designators[i]) =>
                     ret.out.header.subfile_designators[i].offset = arg.designators[i].offset.n
    /\ ExampleHeaderAsTested

\* C6 witness: the documented payload has been parsed
C6_Witness ==
    /\ HeaderDone /\ input = ExampleHeaderPayload /\ StandardHeader(arg) /\ ret.ok
    /\ Len(ret.out.header.subfile_designators) = 2

\* C6 as stated: every designator's offset is its decimal value
C6_Original ==
    (HeaderDone /\ StandardHeader(arg)) =>
        /\ HeaderAsEncoded(arg)
        /\ \A i \in 1..Len(arg.designators) :
              ret.out.header.subfile_designators[i].offset = arg.designators[i].offset.n

\* C2: a fixed-width numeric token that holds a non-digit character fails
\* to parse: a header token fails the header, a designator's offset or
\* length ends the designator list before that designator.
C2_Original ==
    (HeaderDone /\ arg.file_type \in {AAMVA, ANSI}) =>
        /\ ~arg.issuer.digits => ~ret.ok
        /\ (arg.issuer.digits /\ ~arg.version.digits) => ~ret.ok
        /\ (arg.issuer.digits /\ arg.version.digits /\ arg.version.n > 2
              /\ ~arg.jurisdiction.digits) => ~ret.ok
        /\ (arg.issuer.digits /\ arg.version.digits /\ arg.version.n <= 2
              /\ arg.jurisdiction = NoToken /\ ~arg.count.digits) => ~ret.ok
        /\ (FixedFieldsWellFormed(arg) /\ ret.ok) =>
              \A i \in 1..Len(ret.out.header.subfile_designators) :
                 i <= Len(arg.designators) =>
                    (arg.designators[i].abac \/
                       (arg.designators[i].offset.digits /\ arg.designators[i].length.digits))

\* C7: when the fixed header fields parse, parse_header succeeds with exactly
\* the designators that precede the first one that cannot be parsed (unknown
\* type, non-numeric offset or length), whatever number_of_entries declares.
C7_Original ==
    (HeaderDone /\ FixedFieldsWellFormed(arg)) =>
        /\ ret.ok
        /\ Len(ret.out.header.subfile_designators) = WellFormedPrefix(arg.designators)
        /\ \A i \in 1..WellFormedPrefix(arg.designators) :
              Some(ret.out.header.subfile_designators[i].subfile_type)
                  = TagType(arg.designators[i].type)

---------------------------------------------------------------------------
\* SpecHeight: Data::height applied to a parsed Data.

MaxHeightLen == 3

\* an element value as parse_data_element records it: trimmed, not empty, no
\* placeholder, no terminator inside
RecordedValue(v) ==
    /\ trim(v) = v
    /\ v \notin {<<>>, NONE, unavl}
    /\ \A i \in 1..Len(v) : v[i] \notin Terminator

HeightUnits == {<<>>, <<" ", "i", "n">>, <<" ", "c", "m">>, <<" ", "I", "N">>}

HeightExamples ==
    {<<"0", "7", "0", " ", "i", "n">>, <<"1", "7", "8", " ", "c", "m">>, <<"5", "1", "0">>,
     <<"5", "'", "1", "0", "\"">>, <<"5", "'", "-", "1", "0", "\"">>, <<"5", "-", "1", "0">>,
     <<"7", "0", " ", "i", "n">>, <<"0", "7", "0", "0", " ", "i", "n">>,
     <<"1", "2", "<e9>", " ", "c", "m">>, <<"6", "0", "0", "0", "-", "0">>,
     <<"5", "4", "6", "1", "-", "3">>, <<"5", "4", "6", "1", "-", "4">>,
     <<"9", "9", "9", "9", "9", "-", "1">>, <<"5", "'", "-", "x">>, <<"a", "b", "c", "d">>}

HeightValues ==
    {v \in {b \o u : b \in Texts({"7", "0", "+", "-", "<e9>"}, MaxHeightLen), u \in HeightUnits}
           \cup HeightExamples :
        RecordedValue(v)}

DAU == <<"D", "A", "U">>

DAV == <<"D", "A", "V">>

ZIJ == <<"Z", "I", "J">>

\* an element that the subfile does not hold
Missing == [missing |-> TRUE]

\* the element map with the given entries; an absent entry is left out
Elements(entries) ==
    [id \in {e[1] : e \in {x \in entries : x[2] # Missing}} |->
        (CHOOSE e \in entries : e[1] = id)[2]]

\* an optional element: not in the map, in it without a value, in it with one
OptionalElement(values) == {Missing, None} \cup {Some(v) : v \in values}

\* DAU in the DL subfile, or shadowed there and present in the EN subfile
HeightSubfiles ==
    {(DL :> Elements({<<DAU, Some(dau)>>, <<DAV, dav>>}))
        @@ (IF zij = Missing THEN <<>>
            ELSE JurisdictionSpecific("I") :> Elements({<<ZIJ, zij>>})) :
        dau \in HeightValues,
        dav \in OptionalElement({<<"1", "7", "8">>, <<"x", "7">>}),
        zij \in OptionalElement({<<"5", "-", "1", "0">>})}
    \cup
    {(DL :> Elements({<<DAU, dl>>, <<DAV, dav>>})) @@ (EN :> Elements({<<DAU, Some(dau)>>})) :
        dl \in {Missing, None},
        dau \in HeightExamples,
        dav \in OptionalElement({<<"1", "7", "8">>})}
    \cup
    {(ID :> Elements({<<DAU, dau>>, <<DAV, dav>>}))
        @@ (IF zij = Missing THEN <<>>
            ELSE JurisdictionSpecific("I") :> Elements({<<ZIJ, zij>>})) :
        dau \in {Missing, None},
        dav \in OptionalElement({<<"1", "7", "8">>, <<"x", "7">>}),
        zij \in OptionalElement({<<"5", "-", "1", "0">>, <<"5", "1", "0">>,
                                 <<"6", "0", "0", "0", "'", "-", "0", "\"">>})}

DataHeaders ==
    {[ExampleHeader EXCEPT !.subfile_designators = <<>>, !.version_number = v,
                           !.jurisdiction_version_number = IF v > 2 THEN Some(0) ELSE None] :
        v \in {1, 4}}

InitHeight ==
    /\ header \in DataHeaders
    /\ subfiles \in HeightSubfiles
    /\ overflow_checks \in BOOLEAN
    /\ pc = "call"
    /\ ret = Unused
    /\ input = Unused
    /\ arg = Unused
    /\ start = Unused
    /\ idx = 0

CallHeight ==
    /\ pc = "call"
    /\ ret' = height([header |-> header, subfiles |-> subfiles], overflow_checks)
    /\ pc' = "done"
    /\ UNCHANGED <<input, arg, header, start, subfiles, idx, overflow_checks>>

NextHeight == CallHeight

SpecHeight == InitHeight /\ [][NextHeight]_vars

\* the DL subfile holds the value as its primary height element
PrimaryHeightIs(v) ==
    /\ pc = "done"
    /\ DL \in DOMAIN subfiles
    /\ DAU \in DOMAIN subfiles[DL]
    /\ subfiles[DL][DAU] = Some(v)

\* no fallback element is there to decode
NoHeightFallback ==
    /\ \A ty \in {DL, EN, ID} \cap DOMAIN subfiles :
          DAV \notin DOMAIN subfiles[ty] \/ subfiles[ty][DAV] = None
    /\ JurisdictionSpecific("I") \notin DOMAIN subfiles

\* what C10 says of the three encodings that carry no feet mark
HeightExamplesDecoded ==
    /\ PrimaryHeightIs(<<"0", "7", "0", " ", "i", "n">>) => ret = Inches(70)
    /\ PrimaryHeightIs(<<"1", "7", "8", " ", "c", "m">>) => ret = Centimeters(178)
    /\ PrimaryHeightIs(<<"5", "1", "0">>) => ret = Inches(5 * 12 + 10)

\* C10 (as amended): "070 in" gives Inches(70), "178 cm" Centimeters(178),
\* the compact "510" Inches(70), and the hyphenated feet/inches tokens
\* 5'-10" and 5-10 Inches(70); the token 5'10" without a hyphen is none of
\* the four encodings and gives absent when no fallback element is present.
C10_HeightEncodings ==
    /\ HeightExamplesDecoded
    /\ PrimaryHeightIs(<<"5", "'", "-", "1", "0", "\"">>) => ret = Inches(70)
    /\ PrimaryHeightIs(<<"5", "-", "1", "0">>) => ret = Inches(70)
    /\ (PrimaryHeightIs(<<"5", "'", "1", "0", "\"">>) /\ NoHeightFallback) => ret = None

\* C10 witness: the hyphenated token has been decoded
C10_Witness ==
    PrimaryHeightIs(<<"5", "'", "-", "1", "0", "\"">>) /\ ret = Inches(70)

\* C10 as stated: the token 5'10" gives Inches(70)
C10_Original ==
    /\ HeightExamplesDecoded
    /\ PrimaryHeightIs(<<"5", "'", "1", "0", "\"">>) => ret = Inches(70)

---------------------------------------------------------------------------
\* Spec: parse_barcode on a payload, one designator at a time, then the
\* conversion of the Data into DecodedData.  arg keeps the subfiles the
\* payload was put together from.

MaxSubfiles == 2

SubfileBlocks ==
    {[type |-> <<"D", "L">>, data |-> d] :
        d \in {<<"D", "L", "D", "A", "U", "0", "7", "0", " ", "i", "n", "\r", "D", "A", "Q", "1", "\r">>,
               <<"D", "L", "D", "A", "U", "7", "0", " ", "i", "n", "\r">>,
               <<"D", "L", "D", "A", "U", "6", "0", "0", "0", "-", "0", "\r">>,
               <<"D", "A", "Q", "2", "\r", "D", "A", "1", "x", "\r", "1", "A", "Q", "\r">>}}
    \cup
    {[type |-> <<"I", "D">>, data |-> d] :
        d \in {<<"I", "D", "D", "A", "U", "1", "7", "8", " ", "c", "m", "\n", "D", "A", "Q", "3", "\n">>,
               <<"D", "A", "U", "N", "O", "N", "E", "\r", "D", "A", "V", "1", "7", "8", "\r">>}}
    \cup
    {[type |-> <<"Z", "I">>, data |-> <<"Z", "I", "J", "5", "-", "1", "0", "\r">>]}

SubfilePlaces == {"exact", "beyond", "long"}

BarcodeSubfiles ==
    Texts({[block |-> b, place |-> p] : b \in SubfileBlocks, p \in SubfilePlaces}, MaxSubfiles)

\* the file type that opens the payloads of this specification: the second
\* is not one parse_header accepts
BarcodeFileTypes == {ANSI, <<"A", "N", "S", "Y", " ">>}

BarcodeTokens ==
    {[file_type |-> f, subfiles |-> s] : f \in BarcodeFileTypes, s \in BarcodeSubfiles}

RECURSIVE BlocksLen(_, _)
\* the length of the first n blocks
BlocksLen(ss, n) == IF n = 0 THEN 0 ELSE BlocksLen(ss, n - 1) + Len(ss[n].block.data)

\* the header is 17 characters and each designator 10; offset 9000 lies
\* beyond every payload and length 9999 overruns every payload
BarcodeDesignator(ss, i) ==
    LET at == 17 + 10 * Len(ss) + BlocksLen(ss, i - 1)
    IN  ss[i].block.type
        \o Fmt(IF ss[i].place = "beyond" THEN 9000 ELSE at, 4)
        \o Fmt(IF ss[i].place = "long" THEN 9999 ELSE Len(ss[i].block.data), 4)

BarcodePayload(t) ==
    <<"@", "\n">> \o t.file_type \o Fmt(636000, 6) \o Fmt(1, 2) \o Fmt(Len(t.subfiles), 2)
    \o Concat([i \in 1..Len(t.subfiles) |-> BarcodeDesignator(t.subfiles, i)])
    \o Concat([i \in 1..Len(t.subfiles) |-> t.subfiles[i].block.data])

Init ==
    /\ arg \in BarcodeTokens
    /\ input = BarcodePayload(arg)
    /\ overflow_checks \in BOOLEAN
    /\ pc = "start"
    /\ ret = Unused
    /\ header = Unused
    /\ start = Unused
    /\ subfiles = <<>>
    /\ idx = 0

\* let (_trailing, (start, header)) = parse_header(input)?;
ParseHeader ==
    /\ pc = "start"
    /\ \E r \in {parse_header(input)} :
        IF r.ok
        THEN /\ header' = r.out.header
             /\ start' = r.out.start
             /\ idx' = 1
             /\ pc' = "subfiles"
             /\ UNCHANGED ret
        ELSE /\ pc' = "error"
             /\ ret' = Err
             /\ UNCHANGED <<header, start, idx>>
    /\ UNCHANGED <<input, arg, subfiles, overflow_checks>>

\* the flat_map closure on the next designator
ParseSubfile ==
    /\ pc = "subfiles"
    /\ idx <= Len(header.subfile_designators)
    /\ subfiles' = subfile_entry(subfiles, header.subfile_designators[idx],
                                 parse_data_elements(start, header.subfile_designators[idx]))
    /\ idx' = idx + 1
    /\ UNCHANGED <<input, arg, pc, ret, header, start, overflow_checks>>

\* Ok(Data { header, subfiles })
ReturnData ==
    /\ pc = "subfiles"
    /\ idx > Len(header.subfile_designators)
    /\ pc' = "parsed"
    /\ UNCHANGED <<input, arg, ret, header, start, subfiles, idx, overflow_checks>>

\* let decoded_data: DecodedData = barcode_data.into();
Decode ==
    /\ pc = "parsed"
    /\ ret' = decoded_data([header |-> header, subfiles |-> subfiles], overflow_checks)
    /\ pc' = IF ret' = Panic THEN "panicked" ELSE "decoded"
    /\ UNCHANGED <<input, arg, header, start, subfiles, idx, overflow_checks>>

Next == ParseHeader \/ ParseSubfile \/ ReturnData \/ Decode

Spec == Init /\ [][Next]_vars

\* the i-th designator of the parsed header has a subfile that assembles
Assembled(i) == parse_data_elements(start, header.subfile_designators[i]).ok

\* the last of the first n designators that is of the type and assembles
LastAssembled(ty, n) ==
    CHOOSE i \in 1..n :
        /\ Assembled(i)
        /\ header.subfile_designators[i].subfile_type = ty
        /\ \A j \in (i + 1)..n :
            ~(Assembled(j) /\ header.subfile_designators[j].subfile_type = ty)

\* the map holds what the first n designators give once those that fail are
\* taken out of the list
SubfilesOfAssembled(n) ==
    /\ DOMAIN subfiles
         = {header.subfile_designators[i].subfile_type : i \in {j \in 1..n : Assembled(j)}}
    /\ \A ty \in DOMAIN subfiles :
        subfiles[ty]
          = parse_data_elements(start, header.subfile_designators[LastAssembled(ty, n)]).out

\* the payload's header is parsed, with one designator for each subfile
\* the payload was put together from
HeaderParsed ==
    /\ pc \notin {"start", "error"}
    /\ Len(header.subfile_designators) = Len(arg.subfiles)

\* C5: a payload whose header parses is never refused, whatever number of its
\* subfiles fail: a designator that lies beyond the payload fails and adds no
\* entry, and the map is the one of the designators that assemble, the later
\* of two of a type replacing the earlier.
C5_FailedSubfilesDropped ==
    /\ pc = "error" => arg.file_type # ANSI
    /\ arg.file_type = ANSI /\ pc # "start" => HeaderParsed
    /\ HeaderParsed =>
        /\ \A i \in 1..Len(arg.subfiles) : arg.subfiles[i].place = "beyond" => ~Assembled(i)
        /\ SubfilesOfAssembled(IF pc = "subfiles" THEN idx - 1 ELSE Len(arg.subfiles))

C5_Witness ==
    /\ pc = "parsed"
    /\ Len(header.subfile_designators) = 2
    /\ ~Assembled(1)
    /\ Assembled(2)
    /\ header.subfile_designators[1].subfile_type = DL
    /\ DOMAIN subfiles = {ID}
    /\ subfiles[ID] # <<>>

\* C1: the conversion of a parsed Data into DecodedData never panics.
C1_Original == pc # "panicked"

---------------------------------------------------------------------------
\* SpecField: Data::get_field on element maps that hold the element in any
\* of the subfiles DL, EN, ID and ZI.  arg is the element id asked for.

DAQ == <<"D", "A", "Q">>

DCS == <<"D", "C", "S">>

\* a subfile that is not in the map, or is in it with the element DAQ as
\* given and the elements of rest
OptionalSubfile(ty, values, rest) ==
    {<<>>} \cup {ty :> Elements({<<DAQ, q>>} \cup rest) : q \in OptionalElement(values)}

FieldSubfiles ==
    {dl @@ en @@ id @@ zi :
        dl \in OptionalSubfile(DL, {<<"1">>, <<" ", "1", " ", "x", "\t">>}, {}),
        en \in OptionalSubfile(EN, {<<"2">>}, {<<DCS, Some(<<"s">>)>>}),
        id \in OptionalSubfile(ID, {<<"3", " ">>}, {}),
        zi \in OptionalSubfile(JurisdictionSpecific("I"), {<<"9">>}, {<<DCS, Some(<<"z">>)>>})}

InitField ==
    /\ header \in DataHeaders
    /\ subfiles \in FieldSubfiles
    /\ arg \in {DAQ, DCS}
    /\ pc = "call"
    /\ ret = Unused
    /\ input = Unused
    /\ start = Unused
    /\ idx = 0
    /\ overflow_checks = FALSE

CallGetField ==
    /\ pc = "call"
    /\ ret' = get_field([header |-> header, subfiles |-> subfiles], arg)
    /\ pc' = "done"
    /\ UNCHANGED <<input, arg, header, start, subfiles, idx, overflow_checks>>

NextField == CallGetField

SpecField == InitField /\ [][NextField]_vars

\* the subfile is in the map and records a value for the element asked for
HoldsField(ty) ==
    /\ ty \in DOMAIN subfiles
    /\ arg \in DOMAIN subfiles[ty]
    /\ subfiles[ty][arg] # None

\* C11: get_field gives the trimmed value of the first of DL, EN, ID that
\* records a value for the element, whole from that one subfile, and is
\* absent exactly when none of the three does, whatever a
\* jurisdiction-specific subfile holds.
C11_FirstOfDlEnId ==
    pc = "done" =>
        /\ HoldsField(DL) => ret = Some(trim(subfiles[DL][arg].v))
        /\ (~HoldsField(DL) /\ HoldsField(EN)) => ret = Some(trim(subfiles[EN][arg].v))
        /\ (~HoldsField(DL) /\ ~HoldsField(EN) /\ HoldsField(ID))
              => ret = Some(trim(subfiles[ID][arg].v))
        /\ (~HoldsField(DL) /\ ~HoldsField(EN) /\ ~HoldsField(ID)) => ret = None
        /\ (subfiles = (DL :> (DAQ :> Some(<<" ", "1", " ", "x", "\t">>))) /\ arg = DAQ)
              => ret = Some(<<"1", " ", "x">>)

C11_Witness ==
    /\ pc = "done"
    /\ arg = DAQ
    /\ DL \in DOMAIN subfiles /\ DAQ \in DOMAIN subfiles[DL] /\ subfiles[DL][DAQ] = None
    /\ HoldsField(EN)
    /\ HoldsField(ID)
    /\ HoldsField(JurisdictionSpecific("I"))
    /\ ret = Some(<<"2">>)

---------------------------------------------------------------------------
\* SpecDate: Data::date_field on the date of birth of a DL subfile, for
\* issuers of the three countries and of none.  arg is the element's value
\* with the country the issuer id stands for.

DBB == <<"D", "B", "B">>

\* the two-digit groups the date values are put together from
DateGroups ==
    {<<"0", "0">>, <<"0", "2">>, <<"0", "4">>, <<"1", "2">>, <<"1", "3">>, <<"2", "0">>,
     <<"2", "9">>, <<"3", "1">>}

\* values that are not 8 digits
DateOddValues ==
    {<<"2", "0", "2", "0", "0", "1", "0">>, <<"2", "0", "2", "0", "0", "1", "0", "1", "1">>,
     <<"2", "0", "2", "0", "-", "1", "-", "1">>, <<"+", "2", "0", "2", "0", "1", "0", "1">>,
     <<"<e9>", "2", "0", "2", "0", "0", "1">>, <<"<e9>", "2", "0", "2", "0", "0", "1", "0">>,
     <<"0", "1", "0", "1", "2", "0", "2", "x">>}

DateValues ==
    {a \o b \o c \o d : a \in DateGroups, b \in DateGroups, c \in DateGroups, d \in DateGroups}
    \cup DateOddValues

\* Virginia, an id the directory does not hold, Ontario, the second id of
\* Alberta, Coahuila
DateIssuers ==
    {<<636000, "UnitedStates">>, <<1, "UnitedStates">>, <<636012, "Canada">>,
     <<AlbertaAlternative, "Canada">>, <<636056, "Mexico">>}

DateVersions == {1, 2, 9}

DateHeader(issuer_id, version) ==
    [ExampleHeader EXCEPT !.subfile_designators = <<>>, !.issuer_id = issuer_id,
                          !.version_number = version,
                          !.jurisdiction_version_number = IF version > 2 THEN Some(0) ELSE None]

InitDate ==
    /\ \E v \in DateValues, i \in DateIssuers, n \in DateVersions :
          /\ arg = [value |-> v, country |-> i[2]]
          /\ header = DateHeader(i[1], n)
          /\ subfiles = (DL :> (DBB :> Some(v)))
    /\ pc = "call"
    /\ ret = Unused
    /\ input = Unused
    /\ start = Unused
    /\ idx = 0
    /\ overflow_checks = FALSE

CallDateField ==
    /\ pc = "call"
    /\ ret' = date_field([header |-> header, subfiles |-> subfiles], DBB)
    /\ pc' = "done"
    /\ UNCHANGED <<input, arg, header, start, subfiles, idx, overflow_checks>>

NextDate == CallDateField

SpecDate == InitDate /\ [][NextDate]_vars

Date(year, month, day) == Some([year |-> year, month |-> month, day |-> day])

\* the value is read month-day-year first
MonthFirst == arg.country = "UnitedStates" /\ header.version_number # 1

DateValueIs(v) == pc = "done" /\ arg.value = v

\* C12: a value that is not 8 long is absent; for a United States issuer,
\* an unlisted issuer id included, at a version other than 1 the
\* month-day-year reading is taken whenever it is a date and year-month-day
\* only when it is not; for any other issuer or version only
\* year-month-day is read.
C12_DateReading ==
    /\ (pc = "done" /\ Len(arg.value) # 8) => ret = None
    /\ (pc = "done" /\ ByteLen(arg.value) # 8) => ret = None
    /\ (pc = "done" /\ Len(arg.value) = 8 /\ MonthFirst) =>
          ret = IF date_parse(arg.value, "MDY") # None THEN date_parse(arg.value, "MDY")
                ELSE date_parse(arg.value, "YMD")
    /\ (pc = "done" /\ Len(arg.value) = 8 /\ ~MonthFirst) => ret = date_parse(arg.value, "YMD")
    /\ DateValueIs(<<"1", "2", "0", "4", "1", "2", "2", "9">>) =>
          ret = IF MonthFirst THEN Date(1229, 12, 4) ELSE Date(1204, 12, 29)
    /\ DateValueIs(<<"2", "0", "0", "4", "0", "2", "2", "9">>) => ret = Date(2004, 2, 29)
    /\ DateValueIs(<<"0", "2", "2", "9", "1", "3", "0", "0">>) => ret = None
    /\ DateValueIs(<<"0", "2", "2", "9", "2", "0", "0", "0">>) =>
          ret = IF MonthFirst THEN Date(2000, 2, 29) ELSE None

C12_Witness ==
    /\ DateValueIs(<<"1", "2", "0", "4", "1", "2", "2", "9">>)
    /\ header.issuer_id = 1
    /\ header.version_number = 2
    /\ ret = Date(1229, 12, 4)

---------------------------------------------------------------------------
\* SpecCountry: Data::country on a DL subfile with the country element DCG
\* and the height elements DAU and DAV.

DCG == <<"D", "C", "G">>

CountryCodes ==
    {<<"U", "S", "A">>, <<"c", "a", "n">>, <<"M", "e", "x">>, <<"X", "X", "X">>,
     <<"U", "S">>, <<"U", "S", "A", "X">>}

CountryHeights ==
    {<<"0", "7", "0", " ", "i", "n">>, <<"1", "7", "8", " ", "c", "m">>, <<"5", "1", "0">>,
     <<"5", "-", "1", "0">>, <<"a", "b", "c", "d">>, <<"7", "0", " ", "i", "n">>}

CountrySubfiles ==
    {DL :> Elements({<<DCG, dcg>>, <<DAU, dau>>, <<DAV, dav>>}) :
        dcg \in OptionalElement(CountryCodes),
        dau \in OptionalElement(CountryHeights),
        dav \in OptionalElement({<<"1", "7", "8">>})}

InitCountry ==
    /\ header \in DataHeaders
    /\ subfiles \in CountrySubfiles
    /\ overflow_checks \in BOOLEAN
    /\ pc = "call"
    /\ ret = Unused
    /\ input = Unused
    /\ arg = Unused
    /\ start = Unused
    /\ idx = 0

CallCountry ==
    /\ pc = "call"
    /\ ret' = country([header |-> header, subfiles |-> subfiles], overflow_checks)
    /\ pc' = "done"
    /\ UNCHANGED <<input, arg, header, start, subfiles, idx, overflow_checks>>

NextCountry == CallCountry

SpecCountry == InitCountry /\ [][NextCountry]_vars

\* the DL subfile records the value for the element
Recorded(id, v) == id \in DOMAIN subfiles[DL] /\ subfiles[DL][id] = Some(v)

\* the DL subfile records no value for the element
NotRecorded(id) == id \notin DOMAIN subfiles[DL] \/ subfiles[DL][id] = None

\* the height the country is inferred from
DecodedHeight == height([header |-> header, subfiles |-> subfiles], overflow_checks)

\* C13: a recorded country code alone gives the country, USA, CAN and MEX
\* in any case of letters, and any other code gives absent whatever the
\* height; with no code recorded, a height in inches gives United States,
\* one in centimetres Canada, and no height gives absent.
C13_ExplicitCountryFirst ==
    pc = "done" =>
        /\ \A code \in CountryCodes : Recorded(DCG, code) =>
              ret = CASE to_ascii_uppercase(code) = <<"U", "S", "A">> -> Some("UnitedStates")
                      [] to_ascii_uppercase(code) = <<"C", "A", "N">> -> Some("Canada")
                      [] to_ascii_uppercase(code) = <<"M", "E", "X">> -> Some("Mexico")
                      [] OTHER -> None
        /\ (Recorded(DCG, <<"X", "X", "X">>) /\ Recorded(DAU, <<"0", "7", "0", " ", "i", "n">>))
              => ret = None
        /\ (Recorded(DCG, <<"c", "a", "n">>) /\ Recorded(DAU, <<"0", "7", "0", " ", "i", "n">>))
              => ret = Some("Canada")
        /\ (NotRecorded(DCG) /\ Recorded(DAU, <<"0", "7", "0", " ", "i", "n">>))
              => ret = Some("UnitedStates")
        /\ (NotRecorded(DCG) /\ Recorded(DAU, <<"1", "7", "8", " ", "c", "m">>))
              => ret = Some("Canada")
        /\ (NotRecorded(DCG) /\ DecodedHeight = None) => ret = None
        /\ (NotRecorded(DCG) /\ DecodedHeight \notin {None, Panic}) =>
              ret = IF DecodedHeight.v.unit = "inches" THEN Some("UnitedStates")
                    ELSE Some("Canada")

C13_Witness ==
    /\ pc = "done"
    /\ Recorded(DCG, <<"X", "X", "X">>)
    /\ Recorded(DAU, <<"0", "7", "0", " ", "i", "n">>)
    /\ ret = None

---------------------------------------------------------------------------
\* The height fallbacks, under SpecHeight

\* the value has none of the shapes of the four encodings of Data::height
NoHeightEncoding(v) ==
    /\ ~EndsWith(to_ascii_lowercase(v), <<" ", "c", "m">>)
    /\ ~EndsWith(to_ascii_lowercase(v), <<" ", "i", "n">>)
    /\ ByteLen(v) # 3
    /\ \A i \in 1..Len(v) : v[i] # "-"

\* the primary height element as get_field finds it
PrimaryHeight == get_field([header |-> header, subfiles |-> subfiles], DAU)

\* C14: a primary height element that is absent, or present in none of the
\* four encodings, leaves the height to the fallback elements DAV and then
\* ZIJ of the subfile ZI; element maps with DAV = "178" and no DAU give
\* Centimeters(178).
C14_Original ==
    pc = "done" =>
        /\ (PrimaryHeight = None \/ NoHeightEncoding(PrimaryHeight.v)) =>
              ret = height_fallback([header |-> header, subfiles |-> subfiles], overflow_checks)
        /\ subfiles = (ID :> (DAV :> Some(<<"1", "7", "8">>))) => ret = Centimeters(178)

---------------------------------------------------------------------------
\* SpecWeight: Data::weight on a DL subfile with the elements DAW, DAX, DCE.

DAW == <<"D", "A", "W">>

DAX == <<"D", "A", "X">>

DCE == <<"D", "C", "E">>

WeightCodes == {<<d>> : d \in Digit} \cup {<<"1", "0">>, <<"a">>}

WeightSubfiles ==
    {DL :> Elements({<<DAW, daw>>, <<DAX, dax>>, <<DCE, dce>>}) :
        daw \in OptionalElement({<<"1", "5", "0">>, <<"a", "b", "c">>,
                                 <<"7", "0", "0", "0", "0">>}),
        dax \in OptionalElement({<<"6", "8">>, <<"x">>}),
        dce \in OptionalElement(WeightCodes)}

InitWeight ==
    /\ header \in DataHeaders
    /\ subfiles \in WeightSubfiles
    /\ pc = "call"
    /\ ret = Unused
    /\ input = Unused
    /\ arg = Unused
    /\ start = Unused
    /\ idx = 0
    /\ overflow_checks = FALSE

CallWeight ==
    /\ pc = "call"
    /\ ret' = weight([header |-> header, subfiles |-> subfiles])
    /\ pc' = "done"
    /\ UNCHANGED <<input, arg, header, start, subfiles, idx, overflow_checks>>

NextWeight == CallWeight

SpecWeight == InitWeight /\ [][NextWeight]_vars

\* the element records a value that is an integer of 16 bits
DecodesInteger(id) ==
    /\ id \in DOMAIN subfiles[DL]
    /\ subfiles[DL][id] # None
    /\ parse_u16(subfiles[DL][id].v) # None

IntegerOf(id) == parse_u16(subfiles[DL][id].v).v

\* what C15 says of the range codes
RangeCodesDecoded ==
    /\ Recorded(DCE, <<"0">>) => ret = KilogramRange(0, 31)
    /\ Recorded(DCE, <<"4">>) => ret = KilogramRange(71, 86)
    /\ Recorded(DCE, <<"9">>) => ret = KilogramRange(146, 255)
    /\ (Recorded(DCE, <<"1", "0">>) \/ Recorded(DCE, <<"a">>) \/ NotRecorded(DCE)) => ret = None

\* C15 (as amended): the weight is decoded from the first of pounds (DAW),
\* kilograms (DAX) and range code (DCE) that records a value: a recorded DAW
\* or DAX that is no integer gives absent and the later elements are not
\* looked at; the codes "0" to "9" of DCE give the fixed ranges and any other
\* code absent.
C15_WeightByPresence ==
    pc = "done" =>
        /\ ~NotRecorded(DAW) =>
              ret = IF DecodesInteger(DAW) THEN Pounds(IntegerOf(DAW)) ELSE None
        /\ (NotRecorded(DAW) /\ ~NotRecorded(DAX)) =>
              ret = IF DecodesInteger(DAX) THEN Kilograms(IntegerOf(DAX)) ELSE None
        /\ (NotRecorded(DAW) /\ NotRecorded(DAX)) => RangeCodesDecoded

C15_Witness ==
    /\ pc = "done"
    /\ Recorded(DAW, <<"a", "b", "c">>)
    /\ Recorded(DAX, <<"6", "8">>)
    /\ Recorded(DCE, <<"4">>)
    /\ ret = None

\* C15 as stated: a DAW that is no integer leaves the weight to DAX, and a
\* DAX that is no integer leaves it to DCE
C15_Original ==
    pc = "done" =>
        /\ DecodesInteger(DAW) => ret = Pounds(IntegerOf(DAW))
        /\ (~DecodesInteger(DAW) /\ DecodesInteger(DAX)) => ret = Kilograms(IntegerOf(DAX))
        /\ (~DecodesInteger(DAW) /\ ~DecodesInteger(DAX)) => RangeCodesDecoded

---------------------------------------------------------------------------
\* SpecUnder: Data::under_age_until on a DL subfile with the date of birth
\* DBB and the threshold element DDH, for an issuer whose dates are read
\* year-month-day.

DDH == <<"D", "D", "H">>

\* leap and common years, years whose thresholds fall on leap and on common
\* years and on the common year 2100, and years at the end of the calendar
BirthYears == {0, 2000, 2001, 2002, 2003, 2079, 2082, 9978, 9981, 9985}

\* month and day: the days around the end of February, day 70 of a leap
\* year, the ends of the year, and two that are no day
BirthDays ==
    {<<"0", "1", "0", "1">>, <<"0", "2", "2", "8">>, <<"0", "2", "2", "9">>,
     <<"0", "3", "0", "1">>, <<"0", "3", "0", "2">>, <<"0", "3", "1", "0">>,
     <<"1", "2", "3", "0">>, <<"1", "2", "3", "1">>, <<"0", "2", "3", "0">>,
     <<"1", "3", "0", "1">>}

BirthValues == {Fmt(y, 4) \o d : y \in BirthYears, d \in BirthDays} \cup {<<"x">>}

ThresholdValues == {<<"2", "0", "2", "0", "0", "1", "0", "1">>, <<"2", "0", "2", "0">>}

UnderSubfiles ==
    {DL :> Elements({<<DBB, dbb>>, <<DDH, ddh>>}) :
        dbb \in OptionalElement(BirthValues), ddh \in OptionalElement(ThresholdValues)}

\* Ontario
UnderHeaders == {DateHeader(636012, v) : v \in {1, 4}}

InitUnder ==
    /\ header \in UnderHeaders
    /\ subfiles \in UnderSubfiles
    /\ pc = "call"
    /\ ret = Unused
    /\ input = Unused
    /\ arg = Unused
    /\ start = Unused
    /\ idx = 0
    /\ overflow_checks = FALSE

CallUnderAgeUntil ==
    /\ pc = "call"
    /\ ret' = under_age_until([header |-> header, subfiles |-> subfiles])
    /\ pc' = "done"
    /\ UNCHANGED <<input, arg, header, start, subfiles, idx, overflow_checks>>

NextUnder == CallUnderAgeUntil

SpecUnder == InitUnder /\ [][NextUnder]_vars

\* the date a recorded value stands for, read year-month-day
RecordedDate(id) ==
    IF NotRecorded(id) THEN None ELSE date_parse(subfiles[DL][id].v, "YMD")

Birth == RecordedDate(DBB).v

\* the day of the year as a count of the days of the months before
BirthDayOfYear ==
    LET feb == IF Birth.year % 4 = 0 /\ (Birth.year % 100 # 0 \/ Birth.year % 400 = 0)
               THEN 29 ELSE 28
        len == <<31, feb, 31, 30, 31, 30, 31, 31, 30, 31, 30, 31>>
        before[m \in 1..12] == IF m = 1 THEN 0 ELSE before[m - 1] + len[m - 1]
    IN  before[Birth.month] + Birth.day

LeapYear(y) == y % 4 = 0 /\ (y % 100 # 0 \/ y % 400 = 0)

\* the threshold of the age in the result
Threshold(age) ==
    CASE age = 18 -> ret.under_18_until
      [] age = 19 -> ret.under_19_until
      [] age = 21 -> ret.under_21_until

\* the day of the year C16 gives the threshold date
ThresholdDayOfYear(age) ==
    IF BirthDayOfYear > 60 /\ LeapYear(Birth.year) /\ ~LeapYear(Birth.year + age)
    THEN BirthDayOfYear - 1
    ELSE IF BirthDayOfYear > 60 /\ ~LeapYear(Birth.year) /\ LeapYear(Birth.year + age)
    THEN BirthDayOfYear + 1
    ELSE BirthDayOfYear

\* the thresholds are computed from a date of birth
ComputedFromBirth == pc = "done" /\ NotRecorded(DDH) /\ RecordedDate(DBB) # None

\* C16: with no threshold element, the threshold of age N is the date of
\* year birth year + N whose day of the year is the birth's, one less past
\* day 60 from a leap to a common year, one more past day 60 from a common
\* to a leap year; no date of birth gives no threshold, and so does a year
\* past 9999, the last a Date holds.  10 March of the leap year 2000 is day
\* 70 and gives day 69 of 2018.
C16_ThresholdDayOfYear ==
    /\ (pc = "done" /\ NotRecorded(DDH) /\ RecordedDate(DBB) = None) =>
          \A age \in {18, 19, 21} : Threshold(age) = None
    /\ ComputedFromBirth =>
          \A age \in {18, 19, 21} :
              IF Birth.year + age > 9999 THEN Threshold(age) = None
              ELSE /\ Threshold(age) # None
                   /\ to_ordinal_date(Threshold(age).v)
                        = <<Birth.year + age, ThresholdDayOfYear(age)>>
    /\ (ComputedFromBirth /\ Birth = Date(2000, 3, 10).v) =>
          /\ BirthDayOfYear = 70
          /\ to_ordinal_date(ret.under_18_until.v) = <<2018, 69>>
          /\ ret.under_18_until = Date(2018, 3, 10)

C16_Witness ==
    /\ ComputedFromBirth
    /\ Birth = Date(2000, 3, 10).v
    /\ ret.under_18_until = Date(2018, 3, 10)
    /\ ret.under_21_until = Date(2021, 3, 10)

\* C18: a threshold computed from a date of birth other than 29 February
\* falls on the month and day of the birth, in year birth year + N; that of
\* a birth on 29 February falls on 1 March in a common year.
C18_Original ==
    ComputedFromBirth =>
        \A age \in {18, 19, 21} :
            Birth.year + age <= 9999 =>
                /\ Threshold(age) # None
                /\ Threshold(age).v.year = Birth.year + age
                /\ IF Birth.month = 2 /\ Birth.day = 29
                   THEN LeapYear(Birth.year + age)
                           \/ (Threshold(age).v.month = 3 /\ Threshold(age).v.day = 1)
                   ELSE /\ Threshold(age).v.month = Birth.month
                        /\ Threshold(age).v.day = Birth.day

\* C19: a threshold element that holds a date gives that one date for all
\* three thresholds, whatever the date of birth; the three differ only when
\* they are computed from the date of birth.
C19_OneExplicitElement ==
    pc = "done" =>
        /\ RecordedDate(DDH) # None =>
              /\ ret.under_18_until = RecordedDate(DDH)
              /\ ret.under_19_until = RecordedDate(DDH)
              /\ ret.under_21_until = RecordedDate(DDH)
        /\ (ret.under_18_until # ret.under_19_until \/ ret.under_19_until # ret.under_21_until)
              => (RecordedDate(DDH) = None /\ RecordedDate(DBB) # None)

C19_Witness ==
    /\ pc = "done"
    /\ Recorded(DDH, <<"2", "0", "2", "0", "0", "1", "0", "1">>)
    /\ Recorded(DBB, <<"2", "0", "0", "3", "0", "3", "0", "1">>)
    /\ ret.under_18_until = Date(2020, 1, 1)
    /\ ret.under_21_until = Date(2020, 1, 1)

---------------------------------------------------------------------------
\* The offset of a standard designator, under SpecHeader

\* the offset after the correction for South Carolina, as C17 states it
SouthCarolinaFixed(t, d) ==
    IF t.version.n = 1 /\ t.issuer.n = 636005 /\ d.offset.n = 30 THEN 29 ELSE d.offset.n

\* the end of the first match of the pattern in the text handed to the
\* designators
PatternEnd == regex_find_end(ret.out.start)

\* C17: a standard designator keeps its 4-digit offset but for two cases,
\* in this order: offset 30 of South Carolina at version 1 becomes 29, and
\* then offset 0 becomes the end of the first match of the pattern less 5,
\* or stays 0 when the pattern does not match; the guess is never below 0
\* and the length is the 4-digit value.
C17_StandardOffset ==
    (HeaderDone /\ StandardHeader(arg)) =>
        /\ ret.ok
        /\ Len(ret.out.header.subfile_designators) = Len(arg.designators)
        /\ PatternEnd # None => PatternEnd.v >= 5
        /\ \A i \in 1..Len(arg.designators) :
              /\ ret.out.header.subfile_designators[i].length = arg.designators[i].length.n
              /\ ret.out.header.subfile_designators[i].offset
                   = IF SouthCarolinaFixed(arg, arg.designators[i]) # 0
                     THEN SouthCarolinaFixed(arg, arg.designators[i])
                     ELSE IF PatternEnd # None THEN PatternEnd.v - 5
                     ELSE 0

\* C17 witness: an offset of 0 was replaced by the place of the first
\* subfile, and South Carolina's offset 30 by 29
C17_Witness ==
    /\ HeaderDone /\ StandardHeader(arg) /\ ret.ok
    /\ Len(arg.designators) = 2
    /\ arg.issuer.n = 636005 /\ arg.version.n = 1
    /\ arg.designators[1].offset.n = 0
    /\ arg.designators[2].offset.n = 30
    /\ ret.out.header.subfile_designators[1].offset > 0
    /\ SubSeq(ret.out.start, ret.out.header.subfile_designators[1].offset + 1,
              ret.out.header.subfile_designators[1].offset + 5) = <<"D", "L", "D", "A", "Q">>
    /\ ret.out.header.subfile_designators[2].offset = 29

=============================================================================
